---- MODULE Spec2Model ----
(***************************************************************************)
(* A model of the vocabulary trainer in "src/一言/A word.py": the settings  *)
(* file, the per-list JSON caches, the VocabularyApp object, the SM-2      *)
(* update rule and the command loop of main().                              *)
(*                                                                         *)
(* Representation choices:                                                 *)
(*  - Python floats (ef, interval, review weights) are exact rationals     *)
(*    [num, den] in lowest terms; binary rounding (2.6 + 0.1 printing as   *)
(*    2.7000000000000002) is below the model's resolution.                 *)
(*  - A JSON scalar is a cell [t, s, num, den]; word and translation keep  *)
(*    the raw cell in memory, as the code keeps w[0] and w[1] unconverted. *)
(*  - str(date.today()) is the day number of the clock; int(time.time() *  *)
(*    1000) is the clock `now`, in milliseconds.  The clock never runs     *)
(*    backwards and may stand still between two reads.                     *)
(*  - Python list indices are 0-based, sequences here are 1-based: idx is  *)
(*    the Python index plus one.                                           *)
(*  - The keys "is_new" and "learn_date" of a new word never reach a file  *)
(*    and are read by the UI only; a provisional item is w.kind = "new".   *)
(***************************************************************************)
EXTENDS Integers, Sequences, FiniteSets, TLC

VARIABLES
    app,       \* the VocabularyApp object (its attributes)
    settings,  \* settings.txt on disk
    cache,     \* the _<name>.json artifact of every word list
    now,       \* the wall clock, in milliseconds
    pc,        \* where main() stands
    w,         \* the value get_word returned to main()
    ev,        \* history: the last operation and the inputs it read
    answers,   \* history: confirmed answers so far (bounds the run)
    day_start, \* history: today_count when the quota day began
    commits    \* history: new items appended to words in this quota day

vars == <<app, settings, cache, now, pc, w, ev, answers, day_start, commits>>

---------------------------------------------------------------------------
(* Bounds of the model *)

MaxTicks == 2
MaxLimit == 2
MaxAnswers == 2
TicksPerDay == 2
MaxN == 3
MaxRows == 2

(* Program constants *)

DayMs == 86400000
TopQuality == 5
PassQuality == 3
RowFields == 6

TickMs == DayMs \div TicksPerDay
Qualities == 0..TopQuality

---------------------------------------------------------------------------
(* Exact rationals standing for Python floats *)

RECURSIVE GCD(_, _)
GCD(a, b) == IF b = 0 THEN a ELSE GCD(b, a % b)

Abs(x) == IF x < 0 THEN -x ELSE x

Rat(n, d) ==
    LET g == GCD(Abs(n), d)
    IN  [num |-> IF n < 0 THEN -(Abs(n) \div g) ELSE n \div g, den |-> d \div g]

RatAdd(a, b) == Rat(a.num * b.den + b.num * a.den, a.den * b.den)
RatMul(a, b) == Rat(a.num * b.num, a.den * b.den)
RatDiv(a, b) == Rat(a.num * b.den, a.den * b.num)
RatLess(a, b) == a.num * b.den < b.num * a.den
RatLeq(a, b) == a.num * b.den <= b.num * a.den
RatMax(a, b) == IF RatLess(a, b) THEN b ELSE a
FromInt(i) == Rat(i, 1)
Trunc(r) == IF r.num < 0 THEN -((-r.num) \div r.den) ELSE r.num \div r.den

RECURSIVE RatSum(_)
RatSum(s) == IF s = <<>> THEN FromInt(0) ELSE RatAdd(Head(s), RatSum(Tail(s)))

---------------------------------------------------------------------------
(* JSON scalars *)

Str(s) == [t |-> "str", s |-> s, num |-> 0, den |-> 1]
Num(r) == [t |-> "num", s |-> "", num |-> r.num, den |-> r.den]
NumStr(r) == [t |-> "numstr", s |-> "", num |-> r.num, den |-> r.den]
Null == [t |-> "null", s |-> "", num |-> 0, den |-> 1]

CellRat(c) == Rat(c.num, c.den)

\* float(x): a number, or a string holding a numeral; anything else raises.
FloatOk(c) == c.t \in {"num", "numstr"}
\* int(x): a number (truncated), or a string holding an integer numeral.
IntOk(c) == c.t = "num" \/ (c.t = "numstr" /\ c.den = 1)

---------------------------------------------------------------------------
(* The word-list files of assets/: each line as its fields after the split *)

wordlists == {"A", "B", "C"}

FileLines(path) ==
    CASE path = "A" -> << <<"w1", "t1">>, <<"w2", "t2">> >>
      [] path = "B" -> << <<"w3", "t3">>, <<"junk">> >>
      [] OTHER      -> << <<"junk">> >>

NoList == "none"

---------------------------------------------------------------------------
(* settings.txt *)

load_settings(limit, count, day) ==
    [DAILY_NEW_LIMIT |-> limit, TODAY_COUNT |-> count, TODAY_DATE |-> day]

save_settings(cfg) == cfg

---------------------------------------------------------------------------
(* WordListManager *)

Absent == [kind |-> "absent", WORDLIST |-> <<>>]
Garbage == [kind |-> "garbage", WORDLIST |-> <<>>]
NotObject == [kind |-> "not_object", WORDLIST |-> <<>>]
Artifact(rows) == [kind |-> "json", WORDLIST |-> rows]

RowOk(r) ==
    /\ Len(r) >= RowFields
    /\ FloatOk(r[3])
    /\ IntOk(r[4])
    /\ FloatOk(r[5])
    /\ IntOk(r[6])

RowState(r) ==
    [word |-> r[1], translation |-> r[2],
     ef |-> CellRat(r[3]), n |-> Trunc(CellRat(r[4])),
     interval |-> CellRat(r[5]), last_review |-> Trunc(CellRat(r[6]))]

load_wordlist(file, path) ==
    LET total == Len(FileLines(path))
        data  == file.WORDLIST
        learned ==
            IF file.kind = "json" /\ \A i \in DOMAIN data : RowOk(data[i])
            THEN [i \in DOMAIN data |-> RowState(data[i])]
            ELSE <<>>
    IN  [learned |-> learned, total |-> total]

StateRow_whole_ef(s) ==
    <<s.word, s.translation, Num(FromInt(Trunc(s.ef))), Num(FromInt(s.n)),
      Num(s.interval), Num(FromInt(s.last_review))>>

StateRow(s) ==
    <<s.word, s.translation, Num(s.ef), Num(FromInt(s.n)),
      Num(s.interval), Num(FromInt(s.last_review))>>

save_wordlist(words) ==
    Artifact([i \in DOMAIN words |-> StateRow(words[i])])

reset_wordlist_inverted(file) == file.kind = "absent"

\* reset_wordlist: its return value, true when the cache file exists.
reset_wordlist(file) == file.kind # "absent"

remove_cache_kept(files, path) == files

\* reset_wordlist: the cache files it leaves (os.remove when the file exists).
remove_cache(files, path) ==
    IF reset_wordlist(files[path]) THEN [files EXCEPT ![path] = Absent] ELSE files

---------------------------------------------------------------------------
(* MemoryAlgorithm *)

initial_ef == Rat(5, 2)

initial_interval_swapped(n) == <<FromInt(6), FromInt(1)>>[(IF n < 1 THEN n ELSE 1) + 1]

initial_interval(n) == <<FromInt(1), FromInt(6)>>[(IF n < 1 THEN n ELSE 1) + 1]

next_interval(prev_interval, ef) == RatMul(prev_interval, ef)

update_ef_unclamped(ef, q) ==
    LET d == TopQuality - q
    IN  RatAdd(ef, RatAdd(Rat(1, 10),
                   RatMul(FromInt(-d), RatAdd(Rat(8, 100), RatMul(FromInt(d), Rat(2, 100))))))

update_ef(ef, q) ==
    LET d == TopQuality - q
        step == RatAdd(Rat(1, 10),
                       RatMul(FromInt(-d), RatAdd(Rat(8, 100), RatMul(FromInt(d), Rat(2, 100)))))
    IN  RatMax(RatAdd(ef, step), Rat(13, 10))

review_weight(s, t) ==
    LET elapsed == Rat(t - s.last_review, DayMs)
    IN  IF s.interval.num > 0 THEN RatDiv(elapsed, s.interval) ELSE FromInt(1)

---------------------------------------------------------------------------
(* VocabularyApp *)

Day(t) == t \div DayMs

NotLoaded == [loaded |-> FALSE, entries |-> <<>>]

NoItem ==
    [word |-> Null, translation |-> Null, ef |-> FromInt(0), n |-> 0,
     interval |-> FromInt(0), last_review |-> 0]

NoWord == [kind |-> "none", item |-> NoItem]

\* __init__: the settings are read and a stale TODAY_DATE is rolled over.
NewApp(limit, count, stored_day, t) ==
    LET cfg0  == load_settings(limit, count, stored_day)
        stale == cfg0.TODAY_DATE # Day(t)
    IN  [curr |-> NoList, words |-> <<>>, all_words |-> NotLoaded, total |-> 0,
         idx |-> 1, rand |-> FALSE, review_only |-> FALSE,
         cfg |-> IF stale THEN [cfg0 EXCEPT !.TODAY_DATE = Day(t), !.TODAY_COUNT = 0]
                          ELSE cfg0,
         limit |-> cfg0.DAILY_NEW_LIMIT,
         today |-> Day(t),
         today_count |-> IF stale THEN 0 ELSE cfg0.TODAY_COUNT]

TwoFields(p) == Len(p) = 2

load_all_unflagged(a) ==
    LET lines == SelectSeq(FileLines(a.curr), TwoFields)
    IN  [a EXCEPT !.all_words =
            [loaded |-> TRUE,
             entries |-> [i \in DOMAIN lines |->
                 [word |-> Str(lines[i][1]), translation |-> Str(lines[i][2]),
                  is_learned |-> FALSE]]]]

\* _load_all: the two-field lines of the list, flagged by membership in words.
load_all(a) ==
    LET lines == SelectSeq(FileLines(a.curr), TwoFields)
        learned_words == {a.words[i].word : i \in DOMAIN a.words}
    IN  [a EXCEPT !.all_words =
            [loaded |-> TRUE,
             entries |-> [i \in DOMAIN lines |->
                 [word |-> Str(lines[i][1]), translation |-> Str(lines[i][2]),
                  is_learned |-> Str(lines[i][1]) \in learned_words]]]]

\* The all_words property: load on first use.
with_all_words(a) == IF a.all_words.loaded THEN a ELSE load_all(a)

\* select_wordlist, once a valid number is typed.
select_wordlist(a, path, files) ==
    LET r == load_wordlist(files[path], path)
    IN  [a EXCEPT !.curr = path, !.words = r.learned, !.total = r.total,
                  !.all_words = NotLoaded]

rollover_unsaved(a, d) ==
    IF d # a.today THEN [a EXCEPT !.today = d, !.today_count = 0] ELSE a

\* The day rollover at the head of get_word.
rollover(a, d) ==
    IF d # a.today
    THEN [a EXCEPT !.today = d, !.today_count = 0,
                   !.cfg = [a.cfg EXCEPT !.TODAY_DATE = d, !.TODAY_COUNT = 0]]
    ELSE a

new_allowed_off_by_one(a) == ~a.review_only /\ a.today_count <= a.limit

\* The guard of the new-word branch.
new_allowed(a) == ~a.review_only /\ a.today_count < a.limit

new_word(e, t) ==
    [word |-> e.word, translation |-> e.translation, ef |-> initial_ef, n |-> 0,
     interval |-> FromInt(1), last_review |-> t]

count_up_twice(c) == c + 2

\* recordNewItemIntroduced: app.today_count += 1.
count_up(c) == c + 1

\* w.get("temp_new_word"): the item is provisional.
is_provisional(x) == x.kind = "new"

FirstEntry(entries, word) ==
    LET hits == {i \in DOMAIN entries : entries[i].word = word}
    IN  IF hits = {} THEN 0 ELSE CHOOSE i \in hits : \A j \in hits : i <= j

\* main(): the provisional item is appended, flagged and counted.
commit_new(a, item) ==
    LET a1 == [a EXCEPT !.words = Append(a.words, item)]
        a2 == with_all_words([a1 EXCEPT !.idx = Len(a1.words)])
        k  == FirstEntry(a2.all_words.entries, item.word)
        a3 == IF k = 0 THEN a2
              ELSE [a2 EXCEPT !.all_words.entries[k].is_learned = TRUE]
        c  == count_up(a3.today_count)
    IN  [a3 EXCEPT !.today_count = c, !.cfg = [a3.cfg EXCEPT !.TODAY_COUNT = c]]

provisional_committed(a, e, t) ==
    [app |-> commit_new(a, new_word(e, t)), w |-> [kind |-> "new", item |-> new_word(e, t)]]

\* get_word's new branch: the item is handed back, and nothing is committed.
provisional(a, e, t) == [app |-> a, w |-> [kind |-> "new", item |-> new_word(e, t)]]

\* random.choices(range(len(words)), weights): the indices it can return; it
\* raises ValueError when the weights sum to zero (Python 3.9 and later).
Drawable(weights) ==
    IF RatLeq(RatSum(weights), FromInt(0)) THEN {}
    ELSE {i \in DOMAIN weights : RatLess(FromInt(0), weights[i])}

\* get_word: every outcome the random draws allow, each with the app it leaves.
get_word(a0, t) ==
    LET a1 == rollover(a0, Day(t))
        a2 == IF new_allowed(a1) THEN with_all_words(a1) ELSE a1
        unlearned == IF new_allowed(a1)
                     THEN {i \in DOMAIN a2.all_words.entries :
                              ~a2.all_words.entries[i].is_learned}
                     ELSE {}
        weights == [i \in DOMAIN a2.words |-> review_weight(a2.words[i], t)]
        a3 == with_all_words(a2)
    IN  IF unlearned # {}
        THEN {provisional(a2, a2.all_words.entries[i], t) : i \in unlearned}
        ELSE IF a2.words # <<>>
        THEN IF Drawable(weights) = {}
             THEN {[app |-> a2, w |-> [kind |-> "ValueError", item |-> NoItem]]}
             ELSE {[app |-> [a2 EXCEPT !.idx = i],
                    w |-> [kind |-> "review", item |-> a2.words[i]]] :
                   i \in Drawable(weights)}
        ELSE IF a3.all_words.entries # <<>>
        THEN {[app |-> a3, w |-> [kind |-> "no_learned_words", item |-> NoItem]]}
        ELSE {[app |-> a3, w |-> [kind |-> "no_words", item |-> NoItem]]}

answer_state_resets_ef(s, q, t) ==
    IF q < PassQuality
    THEN [s EXCEPT !.n = 0, !.ef = initial_ef, !.interval = initial_interval(0),
                   !.last_review = t]
    ELSE LET n1  == s.n + 1
             ef1 == update_ef(s.ef, q)
         IN  [s EXCEPT !.n = n1, !.ef = ef1,
                       !.interval = IF n1 = 1 THEN initial_interval(1)
                                    ELSE next_interval(s.interval, ef1),
                       !.last_review = t]

answer_state_old_ef(s, q, t) ==
    IF q < PassQuality
    THEN [s EXCEPT !.n = 0, !.interval = initial_interval(0), !.last_review = t]
    ELSE LET n1  == s.n + 1
         IN  [s EXCEPT !.n = n1, !.ef = update_ef(s.ef, q),
                       !.interval = IF n1 = 1 THEN initial_interval(1)
                                    ELSE next_interval(s.interval, s.ef),
                       !.last_review = t]

\* answer, on one learned state.
answer_state(s, q, t) ==
    IF q < PassQuality
    THEN [s EXCEPT !.n = 0, !.interval = initial_interval(0), !.last_review = t]
    ELSE LET n1  == s.n + 1
             ef1 == update_ef(s.ef, q)
         IN  [s EXCEPT !.n = n1, !.ef = ef1,
                       !.interval = IF n1 = 1 THEN initial_interval(1)
                                    ELSE next_interval(s.interval, ef1),
                       !.last_review = t]

answer_first(a, q, t) == [a EXCEPT !.words[1] = answer_state(a.words[1], q, t)]

\* answer: the state at idx is updated in place.
answer(a, q, t) == [a EXCEPT !.words[a.idx] = answer_state(a.words[a.idx], q, t)]

\* main(), act 'u' or 'd' once the quality is known: commit, then answer.
confirm(a, x, q, t) ==
    answer(IF is_provisional(x) THEN commit_new(a, x.item) ELSE a, q, t)

flush_skipped(a, files, st) == [cache |-> files, settings |-> st]

\* flush: the cache of the current list and the settings file, as it writes them.
flush(a, files, st) ==
    [cache |-> [files EXCEPT ![a.curr] = save_wordlist(a.words)],
     settings |-> save_settings(a.cfg)]

\* UI.explain: a new word is shown and scored 0; a review asks for 0..5.
explain(x) == IF is_provisional(x) THEN {0} ELSE Qualities

---------------------------------------------------------------------------
(* main() *)

NoEvent == [op |-> "none", q |-> -1, rolled |-> FALSE, count_before |-> 0,
            prev |-> NoItem, ret |-> FALSE, path |-> NoList, after |-> "none",
            yes |-> FALSE]

Event(op) == [NoEvent EXCEPT !.op = op]

Init ==
    /\ \E limit \in 0..MaxLimit, count \in 0..MaxLimit, stored_day \in {-1, 0} :
          app = NewApp(limit, count, stored_day, 0)
    /\ settings = save_settings(app.cfg)
    /\ \E c \in {Absent, Garbage} :
          cache = [l \in wordlists |-> IF l = "A" THEN c ELSE Absent]
    /\ now = 0
    /\ pc = "select"
    /\ w = NoWord
    /\ ev = NoEvent
    /\ answers = 0
    /\ day_start = app.today_count
    /\ commits = 0

\* select_wordlist: the user types a list number, or q.
Select ==
    /\ pc = "select"
    /\ \E ch \in wordlists \cup {"q"} :
          IF ch = "q"
          THEN /\ pc' = "done"
               /\ app' = app
          ELSE /\ pc' = "loop"
               /\ app' = select_wordlist(app, ch, cache)
    /\ w' = NoWord
    /\ ev' = Event("select")
    /\ UNCHANGED <<settings, cache, now, answers, day_start, commits>>

\* The head of the loop: banner, get_word, and the dispatch on its result.
GetWord ==
    /\ pc = "loop"
    /\ \E r \in get_word(app, now) :
          /\ app' = r.app
          /\ w' = r.w
          /\ pc' = CASE r.w.kind = "ValueError" -> "crashed"
                     [] r.w.kind = "no_learned_words" -> "no_learned"
                     [] r.w.kind = "no_words" -> "no_words"
                     [] OTHER -> "prompt"
    /\ settings' = IF Day(now) # app.today THEN save_settings(app'.cfg) ELSE settings
    /\ ev' = [Event("get_word") EXCEPT !.rolled = Day(now) # app.today,
                                       !.count_before = app.today_count,
                                       !.after = IF ev.op = "confirm" THEN "confirm"
                                                 ELSE "other"]
    /\ day_start' = IF Day(now) # app.today THEN 0 ELSE day_start
    /\ commits' = IF Day(now) # app.today THEN 0 ELSE commits
    /\ UNCHANGED <<cache, now, answers>>

\* no_learned_words: a notice, Enter, and back to learning mode.
AckNoLearned ==
    /\ pc = "no_learned"
    /\ app' = [app EXCEPT !.review_only = FALSE]
    /\ pc' = "loop"
    /\ ev' = Event("ack_no_learned")
    /\ UNCHANGED <<settings, cache, now, w, answers, day_start, commits>>

\* no_words: UI.word prints the notice, and the loop goes round.
ShowNoWords ==
    /\ pc = "no_words"
    /\ pc' = "loop"
    /\ ev' = Event("show_no_words")
    /\ UNCHANGED <<app, settings, cache, now, w, answers, day_start, commits>>

\* The body shared by 'u' and 'd': confirm, then flush.
Confirmed(q) ==
    /\ answers < MaxAnswers
    /\ app' = confirm(app, w, q, now)
    /\ LET committed == IF is_provisional(w) THEN save_settings(app'.cfg) ELSE settings
           f == flush(app', cache, committed)
       IN  /\ cache' = f.cache
           /\ settings' = f.settings
    /\ pc' = "loop"
    /\ ev' = [Event("confirm") EXCEPT !.q = q,
                 !.prev = IF is_provisional(w) THEN w.item ELSE app.words[app.idx]]
    /\ answers' = answers + 1
    /\ commits' = commits + (Len(app'.words) - Len(app.words))
    /\ UNCHANGED <<now, w, day_start>>

CmdU ==
    /\ pc = "prompt"
    /\ Confirmed(TopQuality)

CmdD ==
    /\ pc = "prompt"
    /\ \E q \in explain(w) : Confirmed(q)

\* save(): the cache of the current list and the settings are written.
Saved ==
    /\ cache' = [cache EXCEPT ![app.curr] = save_wordlist(app.words)]
    /\ settings' = save_settings(app.cfg)

CmdS ==
    /\ pc = "prompt"
    /\ Saved
    /\ pc' = "loop"
    /\ ev' = Event("s")
    /\ UNCHANGED <<app, now, w, answers, day_start, commits>>

CmdR ==
    /\ pc = "prompt"
    /\ app' = [app EXCEPT !.rand = ~app.rand]
    /\ pc' = "loop"
    /\ ev' = Event("r")
    /\ UNCHANGED <<settings, cache, now, w, answers, day_start, commits>>

CmdM ==
    /\ pc = "prompt"
    /\ app' = [app EXCEPT !.review_only = ~app.review_only]
    /\ pc' = "loop"
    /\ ev' = Event("m")
    /\ UNCHANGED <<settings, cache, now, w, answers, day_start, commits>>

CmdC ==
    /\ pc = "prompt"
    /\ Saved
    /\ pc' = "select"
    /\ ev' = Event("c")
    /\ UNCHANGED <<app, now, w, answers, day_start, commits>>

\* 'x': after a 'y', reset_wordlist; the list is reloaded only when it
\* reports that a cache file was deleted.
CmdX ==
    /\ pc = "prompt"
    /\ \E yes \in BOOLEAN :
          /\ IF yes /\ reset_wordlist(cache[app.curr])
             THEN /\ cache' = remove_cache(cache, app.curr)
                  /\ app' = select_wordlist(app, app.curr, cache')
             ELSE UNCHANGED <<app, cache>>
          /\ ev' = [Event("x") EXCEPT !.yes = yes, !.path = app.curr,
                                       !.ret = yes /\ reset_wordlist(cache[app.curr])]
    /\ pc' = "loop"
    /\ UNCHANGED <<settings, now, w, answers, day_start, commits>>

CmdQ ==
    /\ pc = "prompt"
    /\ Saved
    /\ pc' = "done"
    /\ ev' = Event("q")
    /\ UNCHANGED <<app, now, w, answers, day_start, commits>>

\* Time passes while the program waits for input.
Tick ==
    /\ pc \in {"loop", "prompt"}
    /\ now < MaxTicks * TickMs
    /\ now' = now + TickMs
    /\ UNCHANGED <<app, settings, cache, pc, w, ev, answers, day_start, commits>>

Next ==
    \/ Select
    \/ GetWord
    \/ AckNoLearned
    \/ ShowNoWords
    \/ CmdU
    \/ CmdD
    \/ CmdS
    \/ CmdR
    \/ CmdM
    \/ CmdC
    \/ CmdX
    \/ CmdQ
    \/ Tick

Spec == Init /\ [][Next]_vars

\* main() as it runs: the loop calls get_word whenever it is at its head, the
\* no_words notice returns after its sleep, and the user presses Enter at the
\* no_learned_words notice.
SpecLive ==
    /\ Init
    /\ [][Next]_vars
    /\ WF_vars(GetWord)
    /\ WF_vars(ShowNoWords)
    /\ WF_vars(AckNoLearned)

---------------------------------------------------------------------------
(* main() with writes that can fail: open() or write() raises OSError inside
   save_settings or save_wordlist, and the handler at the end of main() ends
   the program *)

\* What load_settings returns for a settings file cut short at its start.
CutSettings == load_settings(50, 0, -1)

\* The file a failed write leaves: untouched (open raised) or cut short.
FailedWrite(before, cut) == {before, cut}

\* 'u' or 'd' on the shown item, with the write at `at` raising: the commit's
\* save_settings, or flush's save_wordlist, or flush's save_settings.
ConfirmFails ==
    /\ pc = "prompt"
    /\ \E q \in explain(w) \cup {TopQuality}, at \in {"commit", "cache", "settings"} :
          LET committed == IF is_provisional(w) THEN commit_new(app, w.item) ELSE app
              answered  == answer(committed, q, now)
              written   == IF is_provisional(w) THEN save_settings(committed.cfg)
                           ELSE settings
          IN  /\ at = "commit" => is_provisional(w)
              /\ app' = IF at = "commit" THEN committed ELSE answered
              /\ settings' \in CASE at = "commit" -> FailedWrite(settings, CutSettings)
                                 [] at = "cache" -> {written}
                                 [] OTHER -> FailedWrite(written, CutSettings)
              /\ cache' \in CASE at = "commit" -> {cache}
                              [] at = "cache" ->
                                   {[cache EXCEPT ![app.curr] = f] :
                                       f \in FailedWrite(cache[app.curr], Garbage)}
                              [] OTHER -> {flush(answered, cache, written).cache}
              /\ ev' = [Event("confirm_failed") EXCEPT !.q = q, !.path = at,
                           !.prev = IF is_provisional(w) THEN w.item ELSE app.words[app.idx]]
    /\ pc' = "crashed"
    /\ commits' = commits + (Len(app'.words) - Len(app.words))
    /\ UNCHANGED <<now, w, answers, day_start>>

FailNext ==
    \/ Next
    \/ ConfirmFails

SpecFail == Init /\ [][FailNext]_vars

---------------------------------------------------------------------------
(* answer() on its own: a learned state drawn from a grid, answered over and over *)

EfSamples == {Rat(k, 100) : k \in {130, 136, 144, 150, 236, 250, 260, 300}}

IntervalSamples == {FromInt(1), FromInt(6), Rat(81, 5), FromInt(30)}

AnswerInit ==
    /\ \E ef \in EfSamples, n \in 0..MaxN, iv \in IntervalSamples :
          app = [NewApp(MaxLimit, 0, 0, 0) EXCEPT
                    !.curr = "A",
                    !.words = <<[word |-> Str("w1"), translation |-> Str("t1"),
                                 ef |-> ef, n |-> n, interval |-> iv,
                                 last_review |-> 0]>>]
    /\ settings = save_settings(app.cfg)
    /\ cache = [l \in wordlists |-> Absent]
    /\ now = 0
    /\ pc = "answer"
    /\ w = NoWord
    /\ ev = NoEvent
    /\ answers = 0
    /\ day_start = 0
    /\ commits = 0

AnswerStep ==
    /\ pc = "answer"
    /\ answers < MaxAnswers
    /\ \E q \in Qualities :
          /\ app' = answer(app, q, now)
          /\ ev' = [Event("answer") EXCEPT !.q = q, !.prev = app.words[app.idx]]
    /\ answers' = answers + 1
    /\ UNCHANGED <<settings, cache, now, pc, w, day_start, commits>>

AnswerTick ==
    /\ pc = "answer"
    /\ now < MaxTicks * TickMs
    /\ now' = now + TickMs
    /\ UNCHANGED <<app, settings, cache, pc, w, ev, answers, day_start, commits>>

AnswerNext ==
    \/ AnswerStep
    \/ AnswerTick

SpecAnswer == AnswerInit /\ [][AnswerNext]_vars

---------------------------------------------------------------------------
(* load_wordlist and save_wordlist on their own: a cache artifact drawn from
   well-formed and damaged ones, loaded, saved and loaded again *)

GoodRow == <<Str("w1"), Str("t1"), Num(Rat(5, 2)), Num(FromInt(0)), Num(FromInt(1)),
             Num(FromInt(0))>>

RowSamples ==
    { GoodRow,
      <<Str("w2"), Str("t2"), Num(Rat(13, 5)), Num(FromInt(1)), Num(FromInt(6)),
        Num(FromInt(0))>>,
      SubSeq(GoodRow, 1, 5),
      Append(GoodRow, Str("extra")),
      [GoodRow EXCEPT ![3] = Str("high")],
      [GoodRow EXCEPT ![4] = NumStr(Rat(5, 2))],
      [GoodRow EXCEPT ![4] = Num(Rat(27, 10))],
      [GoodRow EXCEPT ![1] = Null],
      [GoodRow EXCEPT ![3] = NumStr(Rat(5, 2))],
      [GoodRow EXCEPT ![6] = Null] }

StoreArtifacts ==
    {Absent, Garbage, NotObject}
        \cup {Artifact(rows) : rows \in UNION {[1..k -> RowSamples] : k \in 0..MaxRows}}

StoreInit ==
    /\ app = NewApp(MaxLimit, 0, 0, 0)
    /\ settings = save_settings(app.cfg)
    /\ \E f \in StoreArtifacts, g \in {Absent, Artifact(<<GoodRow>>)} :
          cache = [l \in wordlists |-> IF l = "A" THEN f ELSE IF l = "B" THEN g ELSE Absent]
    /\ now = 0
    /\ pc = "store"
    /\ w = NoWord
    /\ ev = NoEvent
    /\ answers = 0
    /\ day_start = 0
    /\ commits = 0

StoreLoad ==
    /\ pc = "store"
    /\ app' = select_wordlist(app, "A", cache)
    /\ pc' = "loaded"
    /\ ev' = Event("load")
    /\ UNCHANGED <<settings, cache, now, w, answers, day_start, commits>>

\* save_wordlist of what was loaded, with or without a word learned since.
StoreSave ==
    /\ pc = "loaded"
    /\ \E learn \in BOOLEAN :
          app' = IF learn
                 THEN [app EXCEPT !.words = Append(app.words,
                          new_word([word |-> Str("w2"), translation |-> Str("t2")], now))]
                 ELSE app
    /\ cache' = [cache EXCEPT !["A"] = save_wordlist(app'.words)]
    /\ pc' = "saved"
    /\ ev' = Event("save")
    /\ UNCHANGED <<settings, now, w, answers, day_start, commits>>

StoreReload ==
    /\ pc = "saved"
    /\ app' = select_wordlist(app, "A", cache)
    /\ pc' = "reloaded"
    /\ ev' = [Event("reload") EXCEPT !.count_before = Len(app.words)]
    /\ UNCHANGED <<settings, cache, now, w, answers, day_start, commits>>

\* reset_wordlist of either list, at any point, and again.
StoreReset ==
    /\ pc \in {"store", "loaded", "saved", "reloaded", "reset"}
    /\ \E path \in {"A", "B"} :
          /\ cache' = remove_cache(cache, path)
          /\ ev' = [Event("reset") EXCEPT !.ret = reset_wordlist(cache[path]),
                                           !.path = path]
    /\ pc' = "reset"
    /\ UNCHANGED <<app, settings, now, w, answers, day_start, commits>>

StoreNext ==
    \/ StoreLoad
    \/ StoreSave
    \/ StoreReload
    \/ StoreReset

SpecStore == StoreInit /\ [][StoreNext]_vars

---------------------------------------------------------------------------
(* main() started on a cache written before the word list was edited: the
   cache of list A holds a record whose word the list no longer has *)

OrphanRow == <<Str("w9"), Str("t9"), Num(Rat(5, 2)), Num(FromInt(1)), Num(FromInt(6)),
               Num(FromInt(0))>>

OrphanInit ==
    /\ \E limit \in 0..MaxLimit : app = NewApp(limit, 0, 0, 0)
    /\ settings = save_settings(app.cfg)
    /\ cache = [l \in wordlists |-> IF l = "A" THEN Artifact(<<OrphanRow>>) ELSE Absent]
    /\ now = 0
    /\ pc = "select"
    /\ w = NoWord
    /\ ev = NoEvent
    /\ answers = 0
    /\ day_start = app.today_count
    /\ commits = 0

SpecOrphan == OrphanInit /\ [][Next]_vars

---------------------------------------------------------------------------
(* Vocabulary of the properties *)

LearnedWords(a) == {a.words[i].word : i \in DOMAIN a.words}

CachedWords(f) == {f.WORDLIST[i][1] : i \in DOMAIN f.WORDLIST}

\* The entries with their is_learned flags, as the next reader of all_words sees them.
Flags(a) == with_all_words(a).all_words.entries

HasUnlearned(a) == \E i \in DOMAIN Flags(a) : ~Flags(a)[i].is_learned

\* A step of main() from the head of the loop through get_word.
GetWordStep == pc = "loop" /\ pc' # "loop"

\* A step of main() that confirms the shown item ('u', or 'd' and its quality).
ConfirmStep == pc = "prompt" /\ answers' = answers + 1

Answered == ev.op \in {"answer", "confirm"}

Current == app.words[app.idx]

---------------------------------------------------------------------------
(* C1 *)

\* C1: get_word hands back a new item only when review_only is false and
\* today_count, as the call evaluates it after its own day rollover, is below
\* the limit; with a limit of 0 every call ends in a review item or in one of
\* the errors no_learned_words and no_words, never in a new item.
C1_NewOnlyWithinQuota ==
    /\ (pc = "prompt" /\ w.kind = "new") =>
           (~app.review_only /\ app.today_count < app.limit)
    /\ app.limit = 0 => w.kind \in {"none", "review", "no_learned_words", "no_words"}

C1_Witness ==
    /\ pc = "prompt"
    /\ w.kind = "new"
    /\ ~ev.rolled
    /\ app.today_count > 0
    /\ app.today_count + 1 = app.limit

---------------------------------------------------------------------------
(* C2 *)

C2_ListAndFlagsKept ==
    (GetWordStep /\ w'.kind = "new") =>
        (app'.words = app.words /\ Flags(app') = Flags(app))

C2_OnlyConfirmCommits ==
    (pc = "prompt" /\ is_provisional(w)) =>
        IF ConfirmStep
        THEN w.item.word \in LearnedWords(app')
        ELSE /\ w.item.word \notin LearnedWords(app')
             /\ w.item.word \notin CachedWords(cache'[app.curr])

\* C2 as claimed: a get_word that returns a provisional new item leaves words,
\* the is_learned flags and today_count unchanged, and the item joins the
\* learned list on 'u' or 'd' and on no other command.
C2_Original ==
    [][/\ C2_ListAndFlagsKept
       /\ (GetWordStep /\ w'.kind = "new") => app'.today_count = app.today_count
       /\ C2_OnlyConfirmCommits]_vars

\* C2 as amended: a get_word that returns a provisional new item leaves words
\* and the is_learned flags unchanged and never raises today_count: it leaves
\* today_count as it was, except that the day rollover of that same call sets
\* it to 0; the item joins the learned list on 'u' or 'd' and on no other
\* command.
C2_ProvisionalNotCommitted ==
    [][/\ C2_ListAndFlagsKept
       /\ (GetWordStep /\ w'.kind = "new") =>
              app'.today_count = IF Day(now) # app.today THEN 0 ELSE app.today_count
       /\ C2_OnlyConfirmCommits]_vars

C2_Witness ==
    /\ w.kind = "new"
    /\ ev.op \in {"s", "r", "m", "x"}
    /\ app.words # <<>>
    /\ w.item.word \notin LearnedWords(app)
    /\ app.today_count = 0
    /\ day_start = 0
    /\ commits = 0
    /\ app.today = 1

---------------------------------------------------------------------------
(* C3 *)

---------------------------------------------------------------------------
(* C4 *)

\* C4: a get_word called on a date other than the stored one sets today_count
\* to 0 and the stored date to the current date, writes both to the settings
\* file, and only then tests the quota: with a positive limit, review_only off
\* and an unlearned entry left, it returns a new item whatever the count was.
C4_RolloverBeforeQuota ==
    [][(GetWordStep /\ Day(now) # app.today) =>
          /\ app'.today_count = 0
          /\ app'.today = Day(now)
          /\ settings'.TODAY_COUNT = 0
          /\ settings'.TODAY_DATE = Day(now)
          /\ (~app.review_only /\ 0 < app.limit /\ HasUnlearned(app)) =>
                 w'.kind = "new"]_vars

C4_Witness ==
    /\ pc = "prompt"
    /\ w.kind = "new"
    /\ ev.op = "get_word"
    /\ ev.rolled
    /\ ev.count_before >= app.limit
    /\ settings.TODAY_COUNT = 0
    /\ settings.TODAY_DATE = Day(now)

---------------------------------------------------------------------------
(* C5 *)

\* C5: when get_word returns no new item, it returns a learned item if the
\* learned list is non-empty, the error no_learned_words if the learned list
\* is empty and the word list has an entry, and the error no_words if both are
\* empty; it returns, and raises nothing.
C5_DecisionOrder ==
    (ev.op = "get_word" /\ w.kind # "new") =>
        /\ app.words # <<>> => (w.kind = "review" /\ w.item = Current)
        /\ (app.words = <<>> /\ Flags(app) # <<>>) => w.kind = "no_learned_words"
        /\ (app.words = <<>> /\ Flags(app) = <<>>) => w.kind = "no_words"

---------------------------------------------------------------------------
(* C6 *)

\* C6: an answer of quality 0, 1 or 2 sets n to 0 and the interval to 1 and
\* leaves the ease factor as it was, whatever n, interval and ease factor were.
C6_FailedRecallResets ==
    (Answered /\ ev.q \in {0, 1, 2}) =>
        /\ Current.n = 0
        /\ Current.interval = FromInt(1)
        /\ Current.ef = ev.prev.ef

C6_Witness ==
    /\ ev.op = "answer"
    /\ ev.q = 1
    /\ ev.prev.n = 2
    /\ ev.prev.interval = Rat(81, 5)
    /\ ev.prev.ef = Rat(3, 1)
    /\ Current.ef = Rat(3, 1)
    /\ Current.n = 0

---------------------------------------------------------------------------
(* C7 *)

\* UpdateEase as the specification tabulates it for a successful recall.
EaseAfter(ef, q) ==
    LET raw == CASE q = 5 -> RatAdd(ef, Rat(10, 100))
                 [] q = 4 -> ef
                 [] OTHER -> RatAdd(ef, Rat(-14, 100))
    IN  IF RatLess(raw, Rat(13, 10)) THEN Rat(13, 10) ELSE raw

\* C7: an answer of quality 3, 4 or 5 raises n by one, replaces the ease
\* factor by UpdateEase(ef, q), and sets the interval to 6 when the new n is 1
\* and otherwise to the old interval times the new ease factor; from ef 2.5
\* and n 0, a 5 gives (2.6, 1, 6) and a second 5 gives (2.7, 2, 16.2).
C7_SuccessfulRecall ==
    (Answered /\ ev.q \in {3, 4, 5}) =>
        /\ Current.n = ev.prev.n + 1
        /\ Current.ef = EaseAfter(ev.prev.ef, ev.q)
        /\ Current.interval = IF Current.n = 1 THEN FromInt(6)
                              ELSE RatMul(ev.prev.interval, EaseAfter(ev.prev.ef, ev.q))
        /\ (ev.q = 5 /\ ev.prev.ef = Rat(25, 10) /\ ev.prev.n = 0) =>
               (Current.ef = Rat(26, 10) /\ Current.n = 1 /\ Current.interval = FromInt(6))
        /\ (ev.q = 5 /\ ev.prev.ef = Rat(26, 10) /\ ev.prev.n = 1
                /\ ev.prev.interval = FromInt(6)) =>
               (Current.ef = Rat(27, 10) /\ Current.n = 2
                    /\ Current.interval = Rat(162, 10))

C7_Witness ==
    /\ ev.op = "confirm"
    /\ ev.q = 5
    /\ answers = 2
    /\ Len(app.words) = 1
    /\ ev.prev.ef = Rat(26, 10)
    /\ ev.prev.n = 1
    /\ ev.prev.interval = FromInt(6)
    /\ Current.ef = Rat(27, 10)
    /\ Current.n = 2
    /\ Current.interval = Rat(162, 10)

---------------------------------------------------------------------------
(* C8 *)

EfGrid == {Rat(k, 100) : k \in 130..300}

EaseFloorOnGrid ==
    \A ef \in EfGrid : \A q \in Qualities : RatLeq(Rat(13, 10), update_ef(ef, q))

\* C8: update_ef never returns less than 1.3 for an ease factor of at least
\* 1.3 and a quality in 0..5, and every learned state that starts at 1.3 or
\* above stays at 1.3 or above through any sequence of answers.
C8_EaseFloor ==
    /\ EaseFloorOnGrid
    /\ \A i \in DOMAIN app.words : RatLeq(Rat(13, 10), app.words[i].ef)

C8_Witness ==
    /\ ev.op = "answer"
    /\ ev.q = 3
    /\ ev.prev.ef = Rat(136, 100)
    /\ Current.ef = Rat(13, 10)
    /\ answers = 2

---------------------------------------------------------------------------
(* C9 *)

\* C9: on every learned state the program reaches from an empty learned list,
\* an answer of quality 3, 4 or 5 leaves the interval at least as long as it
\* was, the step to n = 1 (interval 6) included.
C9_SuccessNeverShrinks ==
    (ev.op = "confirm" /\ ev.q \in {3, 4, 5}) =>
        RatLeq(ev.prev.interval, Current.interval)

C9_Witness ==
    /\ ev.op = "confirm"
    /\ ev.q = 3
    /\ ev.prev.n = 0
    /\ ev.prev.last_review < now
    /\ Current.n = 1
    /\ Current.interval = FromInt(6)

---------------------------------------------------------------------------
(* C10 *)

\* The field types of a cache record: string, string, number, integer,
\* number, integer.
IsInteger(c) == c.t = "num" /\ c.den = 1

WellTyped(r) ==
    /\ Len(r) >= RowFields
    /\ r[1].t = "str"
    /\ r[2].t = "str"
    /\ r[3].t = "num"
    /\ IsInteger(r[4])
    /\ r[5].t = "num"
    /\ IsInteger(r[6])

Damaged(f) ==
    \/ f.kind # "json"
    \/ \E i \in DOMAIN f.WORDLIST : ~WellTyped(f.WORDLIST[i])

\* C10: load_wordlist of an absent or unparseable cache, or of one holding a
\* record with a missing or malformed required field, returns the empty
\* learned list and the line count of the word list; a save_wordlist after it
\* writes an artifact that load_wordlist reads back in full.
C10_DamagedCacheLoadsEmpty ==
    /\ (pc = "loaded" /\ Damaged(cache["A"])) =>
           (app.words = <<>> /\ app.total = Len(FileLines("A")))
    /\ pc = "reloaded" =>
           (Len(app.words) = ev.count_before /\ cache["A"] = save_wordlist(app.words))

---------------------------------------------------------------------------
(* C11 *)

\* C11: save_wordlist followed by load_wordlist of the same list returns the
\* records that were saved, in the same order, with word, translation, ease
\* factor, repetition count, interval and last-review time equal to the saved
\* values, and the same line count.
C11_RoundTrip ==
    /\ [](pc = "saved" => cache["A"] = save_wordlist(app.words))
    /\ [][(pc = "saved" /\ pc' = "reloaded") =>
              /\ app'.words = app.words
              /\ app'.total = app.total]_vars

C11_Witness ==
    /\ pc = "reloaded"
    /\ Len(app.words) = 3
    /\ app.words[1].word = Null
    /\ app.words[2].ef = Rat(13, 5)
    /\ app.words[2].interval = FromInt(6)
    /\ app.words[3].word = Str("w2")
    /\ cache["A"] = save_wordlist(app.words)

---------------------------------------------------------------------------
(* C12 *)

\* C12: reset_wordlist of a list whose cache artifact exists deletes the
\* artifact and returns true; of a list with no cache artifact it returns
\* false and changes nothing; either way no cache artifact exists for that
\* list afterwards, and the caches of the other lists are as they were.
C12_ResetWordlist ==
    [][pc' = "reset" =>
          /\ ev'.ret = (cache[ev'.path].kind # "absent")
          /\ ev'.ret => cache'[ev'.path] = Absent
          /\ ~ev'.ret => cache' = cache
          /\ cache'[ev'.path].kind = "absent"
          /\ \A l \in wordlists \ {ev'.path} : cache'[l] = cache[l]]_vars

C12_Witness ==
    /\ pc = "reset"
    /\ ev.ret
    /\ ev.path = "A"
    /\ cache["A"] = Absent
    /\ cache["B"] = Artifact(<<GoodRow>>)
    /\ app.words # <<>>

C12_WitnessNoCache ==
    /\ pc = "reset"
    /\ ~ev.ret
    /\ ev.path = "B"
    /\ cache["B"] = Absent
    /\ cache["A"].kind = "garbage"

---------------------------------------------------------------------------
(* C13 *)

\* main() stands at the command prompt and the command before was a confirm,
\* or it stands at the head of the loop right after a confirm.
AfterConfirm ==
    \/ pc = "prompt" /\ ev.after = "confirm"
    \/ pc = "loop" /\ ev.op = "confirm"

\* C13: whenever the main loop waits for the next command after a completed
\* confirm, the cache of the current list holds exactly the learned states in
\* memory and the TODAY_COUNT on disk is the today_count in memory, so a
\* load_wordlist after a crash at that point returns every learned state.
C13_NoConfirmedAnswerLost ==
    AfterConfirm =>
        /\ cache[app.curr] = save_wordlist(app.words)
        /\ load_wordlist(cache[app.curr], app.curr).learned = app.words
        /\ settings.TODAY_COUNT = app.today_count
        /\ settings = save_settings(app.cfg)

C13_Witness ==
    /\ pc = "prompt"
    /\ ev.after = "confirm"
    /\ ev.rolled
    /\ answers = 2
    /\ Len(app.words) = 2
    /\ app.words[1].n = 1
    /\ app.today_count = 0
    /\ settings.TODAY_COUNT = 0

---------------------------------------------------------------------------
(* C14 *)

\* C14: whenever the learned list is non-empty and get_word reaches the
\* review branch, the draw returns one of the learned items and main() goes
\* on to the prompt: it never fails, not even when every weight is zero
\* because the clock reads last_review for every learned item.
C14_ReviewDrawTotal ==
    /\ pc # "crashed"
    /\ (ev.op = "get_word" /\ app.words # <<>> /\ ~is_provisional(w)) =>
           /\ pc = "prompt"
           /\ \E i \in DOMAIN app.words : w.item = app.words[i] /\ app.idx = i

---------------------------------------------------------------------------
(* C15 *)

\* C15: get_word never returns, as a review item, a learned state whose word
\* is not among the entries of the current word list: a cache record that the
\* list no longer has is kept but never selected.
C15_OrphansNotSelected ==
    (pc = "prompt" /\ w.kind = "review") =>
        \E i \in DOMAIN Flags(app) : Flags(app)[i].word = w.item.word

---------------------------------------------------------------------------
(* C16 *)

\* C16: on word lists with unique words, through every sequence of get_word,
\* confirm, mode toggle, list switch and reset, a word handed back as a new
\* item is not in the learned list, and no word is in the learned list (or
\* in a cache the program wrote) twice.
C16_LearnedKeysUnique ==
    /\ (pc = "prompt" /\ w.kind = "new") => w.item.word \notin LearnedWords(app)
    /\ Cardinality(LearnedWords(app)) = Len(app.words)
    /\ \A l \in wordlists :
           Cardinality(CachedWords(cache[l])) = Len(cache[l].WORDLIST)

C16_Witness ==
    /\ pc = "prompt"
    /\ w.kind = "new"
    /\ w.item.word = Str("w1")
    /\ answers = 2
    /\ app.words = <<>>
    /\ app.curr = "A"
    /\ \A l \in wordlists : cache[l] = Absent
    /\ app.today_count = 1

---------------------------------------------------------------------------
(* C17 *)

\* The learned list of list l: in memory for the current list, in its cache
\* for the others.
LearnedOf(a, files, l) ==
    IF a.curr = l THEN a.words ELSE load_wordlist(files[l], l).learned

\* The user answers y to the reset of list l.
ResetOf(l) == pc = "prompt" /\ ev'.op = "x" /\ ev'.yes /\ ev'.path = l

\* The step changes neither the current list, nor what holds the learned list
\* of l: LearnedOf(_, _, l) is then the same before and after.
Untouched(l) ==
    /\ app'.curr = app.curr
    /\ IF app.curr = l THEN app'.words = app.words ELSE cache'[l] = cache[l]

\* The index confirm works on: the drawn one, or the one the append creates.
ConfirmIndex == IF is_provisional(w) THEN Len(app.words) + 1 ELSE app.idx

---------------------------------------------------------------------------
(* C18 *)

\* C18: when save_settings or save_wordlist fails during the confirm of a new
\* or a review item, the learner state in memory (the learned list with each
\* item's n, ef, interval and last_review, the is_learned flags, today_count)
\* is what it was when the confirm started.
C18_ConfirmAtomic ==
    [][(pc = "prompt" /\ ev'.op = "confirm_failed") =>
          /\ app'.words = app.words
          /\ Flags(app') = Flags(app)
          /\ app'.today_count = app.today_count]_vars

---------------------------------------------------------------------------
(* C19 *)

\* C19: whenever get_word returns no_learned_words or no_words, main() comes
\* back to the command prompt, where the user can switch list or quit; it
\* does not go on reporting the same error for ever.
C19_ErrorsNonFatal == (pc \in {"no_learned", "no_words"}) ~> (pc = "prompt")

---------------------------------------------------------------------------
(* C20 *)

\* C20: once the user has answered y to the reset ('x'), whether or not
\* reset_wordlist found a cache file, the learned list in memory is empty,
\* the current list has no cache artifact, no entry is flagged learned, and
\* the next get_word, when the quota allows a new item, can return every
\* entry of the word list as a new item.
C20_ResetClearsList ==
    (ev.op = "x" /\ ev.yes) =>
        /\ app.words = <<>>
        /\ cache[app.curr] = Absent
        /\ \A i \in DOMAIN Flags(app) : ~Flags(app)[i].is_learned
        /\ new_allowed(rollover(app, Day(now))) =>
               \A i \in DOMAIN Flags(app) :
                   \E r \in get_word(app, now) :
                       r.w.kind = "new" /\ r.w.item.word = Flags(app)[i].word

C20_Witness ==
    /\ ev.op = "x"
    /\ ev.yes
    /\ ev.ret
    /\ answers = 2
    /\ app.curr = "A"
    /\ cache["B"] = Absent
    /\ app.today_count = 1
    /\ app.limit = 2

C20_WitnessNoCache ==
    /\ ev.op = "x"
    /\ ev.yes
    /\ ~ev.ret
    /\ app.curr = "A"
    /\ app.all_words.loaded
    /\ new_allowed(app)

====
